---- MODULE Spec2Model ----
(***************************************************************************)
(* Context<D> of the failure crate (src/src/context.rs): a message of type *)
(* D attached to an optional prior failure.  The crate compiles the type   *)
(* in two shapes, with_std! (message + Either<Backtrace, Error>) and       *)
(* without_std! (message only).  Both shapes are driven here by the same   *)
(* sequence of constructor and accessor calls, so that statements about    *)
(* one shape and statements relating the two are statements about states. *)
(*                                                                         *)
(* Text is a sequence of tokens; "\n" is one newline character.            *)
(***************************************************************************)
EXTENDS Integers, Sequences, FiniteSets, TLC

VARIABLES
    full,       \* the with_std Context<D> value under construction / inspection
    reduced,    \* the without_std Context<D> built by the same calls
    captures,   \* number of Backtrace::new() calls made so far
    last,       \* the last call: its name, its arguments, captures before it
    out_full,   \* what the last accessor returned on `full`
    out_reduced \* what the last accessor returned on `reduced`

vars == <<full, reduced, captures, last, out_full, out_reduced>>

\* ------------------------------------------------------------------ bounds
MaxDepth == 3       \* contexts nested inside one another
MaxCaptures == 3    \* Backtrace::new() calls in one run

\* ------------------------------------------------------------- Option<T>
None == [some |-> FALSE]
Some(x) == [some |-> TRUE, val |-> x]

\* ------------------------------------------------- the message type D
\* D is any Display + Send + Sync + 'static type; three inhabitants.
D == {"cfg", "settings", "empty"}

\* <D as Display>::fmt: the text a message renders to.  One message holds a
\* blank line of its own, one renders to nothing.
D_fmt(d) ==
    CASE d = "cfg"      -> <<"failed to load config">>
      [] d = "settings" -> <<"invalid", "\n", "\n", "settings file">>
      [] d = "empty"    -> <<>>

\* ------------------------------------------------- Backtrace (opaque)
\* Backtrace::new(): the n-th capture of the run is a backtrace of its own.
Backtrace_new(n) == [bt |-> n + 1]

\* <Backtrace as Debug>::fmt
Backtrace_fmt(b) == <<"stack backtrace:", ToString(b.bt)>>

\* ------------------------------------------------- prior failures
\* Failures produced elsewhere: an I/O failure with no cause, and a parse
\* failure caused by it.  Each carries the backtrace of its own site.
IoError == [name |-> "IoError", dbg |-> <<"IoError(NotFound)">>,
            cause |-> None, backtrace |-> [bt |-> 0 - 1]]
ParseError == [name |-> "ParseError", dbg |-> <<"ParseError { line: 4 }">>,
               cause |-> Some(IoError), backtrace |-> [bt |-> 0 - 2]]
PriorErrors == {IoError, ParseError}

\* A Fail value is a prior failure or a (with_std) Context.
IsContext(f) == "failure" \in DOMAIN f

\* ------------------------------------------------- Error
\* Error::cause(&self) -> &Fail : the failure the Error holds.
Error_cause(error) == error.failure

\* Error::backtrace(&self) -> &Backtrace
Error_backtrace(error) == error.backtrace

\* ------------------------------------------------- Either<Backtrace, Error>
This(a) == [tag |-> "This", a |-> a]
That(b) == [tag |-> "That", b |-> b]

Either_backtrace(self) ==
    IF self.tag = "This" THEN self.a ELSE Error_backtrace(self.b)

RECURSIVE Fail_cause(_)

Either_cause_AlwaysSome(self) ==
    IF self.tag = "This" THEN Some(self.a) ELSE Some(Error_cause(self.b))

Either_cause_OneHopFurther(self) ==
    IF self.tag = "This" THEN None ELSE Fail_cause(Error_cause(self.b))

Either_cause(self) ==
    IF self.tag = "This" THEN None ELSE Some(Error_cause(self.b))

\* ------------------------------------------------- Context<D>, with_std
Context_cause(self) == Either_cause(self.failure)

Context_backtrace_Forward(self) ==
    IF self.failure.tag = "This" THEN Some(self.failure.a) ELSE None

Context_backtrace(self) == Some(Either_backtrace(self.failure))

Context_get_context(self) == self.context

\* Fail::cause / Fail::backtrace, dispatched on the value behind &Fail
Fail_cause(f) == IF IsContext(f) THEN Context_cause(f) ELSE f.cause

Fail_backtrace(f) == IF IsContext(f) THEN Context_backtrace(f) ELSE Some(f.backtrace)

\* Into<Error>: the Error holds the failure and the backtrace it carries.
Error_from(f) == [failure |-> f, backtrace |-> Fail_backtrace(f).val]

Context_new_PriorArm(context, n) ==
    [context |-> context, failure |-> That(Error_from(IoError))]

Context_new(context, n) ==
    [context |-> context, failure |-> This(Backtrace_new(n))]

Context_with_err_Recapture(context, error) ==
    [context |-> context, failure |-> This(Backtrace_new(MaxCaptures + MaxDepth))]

Context_with_err(context, error) ==
    [context |-> context, failure |-> That(Error_from(error))]

Context_fmt_Display_Chain(self) ==
    IF self.failure.tag = "That" /\ ~IsContext(Error_cause(self.failure.b))
    THEN D_fmt(self.context) \o <<": ">> \o Error_cause(self.failure.b).dbg
    ELSE D_fmt(self.context)

Context_fmt_Display_Quoted(self) == <<"\"">> \o D_fmt(self.context) \o <<"\"">>

Context_fmt_Display(self) == D_fmt(self.context)

RECURSIVE Fail_fmt_Debug(_)

\* <Error as Debug>::fmt
Error_fmt(error) == Fail_fmt_Debug(Error_cause(error))

Either_fmt(self) ==
    IF self.tag = "This" THEN Backtrace_fmt(self.a) ELSE Error_fmt(self.b)

Context_fmt_Debug_OneNewline(self) ==
    Either_fmt(self.failure) \o <<"\n">> \o D_fmt(self.context)

Context_fmt_Debug_OuterOnly(self) ==
    IF self.failure.tag = "That" /\ IsContext(Error_cause(self.failure.b))
    THEN Either_fmt(Error_cause(self.failure.b).failure)
         \o <<"\n", "\n">> \o D_fmt(self.context)
    ELSE Either_fmt(self.failure) \o <<"\n", "\n">> \o D_fmt(self.context)

Context_fmt_Debug(self) ==
    Either_fmt(self.failure) \o <<"\n", "\n">> \o D_fmt(self.context)

Fail_fmt_Debug(f) == IF IsContext(f) THEN Context_fmt_Debug(f) ELSE f.dbg

\* ------------------------------------------------- Context<D>, without_std
Context_new_without_std(context) == [context |-> context]

Context_with_err_without_std_Keep(context, error) ==
    [context |-> context, failure |-> error]

Context_with_err_without_std(context, error) == [context |-> context]

Context_get_context_without_std(self) == self.context

Context_fmt_Debug_without_std(self) == D_fmt(self.context)

Context_fmt_Display_without_std(self) == D_fmt(self.context)

\* ------------------------------------------------- helpers on values
RECURSIVE Depth(_)
Depth(f) ==
    IF ~IsContext(f) THEN 0
    ELSE IF f.failure.tag = "This" THEN 1
    ELSE 1 + Depth(Error_cause(f.failure.b))

\* the contexts nested in f, f included
RECURSIVE Nested(_)
Nested(f) ==
    IF ~IsContext(f) THEN {}
    ELSE IF f.failure.tag = "This" THEN {f}
    ELSE {f} \cup Nested(Error_cause(f.failure.b))

NoOut == [op |-> "none"]
NoPrior == [name |-> "none"]

\* ------------------------------------------------- the calls
Init ==
    /\ \E m \in D :
          /\ full = Context_new(m, 0)
          /\ reduced = Context_new_without_std(m)
          /\ last = [op |-> "new", context |-> m, error |-> NoPrior, captures |-> 0]
    /\ captures = 1
    /\ out_full = NoOut
    /\ out_reduced = NoOut

\* Context::new(m)
New(m) ==
    /\ captures < MaxCaptures
    /\ full' = Context_new(m, captures)
    /\ reduced' = Context_new_without_std(m)
    /\ captures' = captures + 1
    /\ last' = [op |-> "new", context |-> m, error |-> NoPrior, captures |-> captures]
    /\ out_full' = NoOut
    /\ out_reduced' = NoOut

\* Context::with_err(m, e) on a failure produced elsewhere
WithErr(m, e) ==
    /\ full' = Context_with_err(m, e)
    /\ reduced' = Context_with_err_without_std(m, e)
    /\ last' = [op |-> "with_err", context |-> m, error |-> e, captures |-> captures]
    /\ out_full' = NoOut
    /\ out_reduced' = NoOut
    /\ UNCHANGED captures

\* Context::with_err(m, c) on the context built so far
Wrap(m) ==
    /\ Depth(full) < MaxDepth
    /\ full' = Context_with_err(m, full)
    /\ reduced' = Context_with_err_without_std(m, reduced)
    /\ last' = [op |-> "with_err", context |-> m, error |-> full, captures |-> captures]
    /\ out_full' = NoOut
    /\ out_reduced' = NoOut
    /\ UNCHANGED captures

GetContext ==
    /\ out_full' = [op |-> "get_context", val |-> Context_get_context(full)]
    /\ out_reduced' = [op |-> "get_context", val |-> Context_get_context_without_std(reduced)]
    /\ UNCHANGED <<full, reduced, captures, last>>

\* Fail::cause; the without_std Fail has no such method
Cause ==
    /\ out_full' = [op |-> "cause", val |-> Context_cause(full)]
    /\ out_reduced' = NoOut
    /\ UNCHANGED <<full, reduced, captures, last>>

\* Fail::backtrace; the without_std Fail has no such method
GetBacktrace ==
    /\ out_full' = [op |-> "backtrace", val |-> Context_backtrace(full)]
    /\ out_reduced' = NoOut
    /\ UNCHANGED <<full, reduced, captures, last>>

Display ==
    /\ out_full' = [op |-> "display", val |-> Context_fmt_Display(full)]
    /\ out_reduced' = [op |-> "display", val |-> Context_fmt_Display_without_std(reduced)]
    /\ UNCHANGED <<full, reduced, captures, last>>

Debug ==
    /\ out_full' = [op |-> "debug", val |-> Context_fmt_Debug(full)]
    /\ out_reduced' = [op |-> "debug", val |-> Context_fmt_Debug_without_std(reduced)]
    /\ UNCHANGED <<full, reduced, captures, last>>

Next ==
    \/ \E m \in D : New(m)
    \/ \E m \in D, e \in PriorErrors : WithErr(m, e)
    \/ \E m \in D : Wrap(m)
    \/ GetContext
    \/ Cause
    \/ GetBacktrace
    \/ Display
    \/ Debug

Spec == Init /\ [][Next]_vars

\* ------------------------------------------------- helpers of the properties
NewlineNewline == <<"\n", "\n">>

IsSuffix(t, u) ==
    /\ Len(t) <= Len(u)
    /\ SubSeq(u, Len(u) - Len(t) + 1, Len(u)) = t

\* the messages of the nested contexts of f, innermost first
RECURSIVE Chain(_)
Chain(f) ==
    IF ~IsContext(f) THEN <<>>
    ELSE IF f.failure.tag = "This" THEN <<f.context>>
    ELSE Chain(Error_cause(f.failure.b)) \o <<f.context>>

\* the Debug form of what lies under the innermost context of f
RECURSIVE RootDebug(_)
RootDebug(f) ==
    IF ~IsContext(f) THEN f.dbg
    ELSE IF f.failure.tag = "This" THEN Backtrace_fmt(f.failure.a)
    ELSE RootDebug(Error_cause(f.failure.b))

\* text, then a blank line and the message, for each message of ms in order
RECURSIVE Paragraphs(_, _)
Paragraphs(text, ms) ==
    IF ms = <<>> THEN text
    ELSE Paragraphs(text \o NewlineNewline \o D_fmt(Head(ms)), Tail(ms))

Built(op) == last.op = op
Returned(op) == out_full.op = op

\* ------------------------------------------------- properties

\* C1: Display of Context::with_err(m, e) is exactly the text of m, in both
\* variants; any other prior error e2 under the same m renders the same text,
\* so nothing of the prior error reaches Display.
C1_DisplayHidesPriorError ==
    (Built("with_err") /\ Returned("display")) =>
        /\ out_full.val = D_fmt(last.context)
        /\ out_reduced.val = D_fmt(last.context)
        /\ \A e2 \in PriorErrors \cup Nested(full) :
              /\ Context_fmt_Display(Context_with_err(last.context, e2)) = out_full.val
              /\ Context_fmt_Display_without_std(
                     Context_with_err_without_std(last.context, e2)) = out_reduced.val

C1_Witness ==
    /\ Built("with_err") /\ Returned("display")
    /\ last.error = ParseError
    /\ last.context = "cfg"

\* C2: Display of Context::new(m) is exactly the text of m, undecorated, and
\* the with_std and the without_std variant print the same text.
C2_DisplayOfNewIsMessage ==
    (Built("new") /\ Returned("display")) =>
        /\ out_full.val = D_fmt(last.context)
        /\ out_reduced.op = "display"
        /\ out_reduced.val = out_full.val

C2_Witness ==
    /\ Built("new") /\ Returned("display")
    /\ last.context = "settings"

\* C3 (as stated): Context::with_err(m, e).cause() returns what e.cause()
\* returns, and is absent whenever e has no cause.
C3_CauseIsPriorErrorsCause ==
    (Built("with_err") /\ Returned("cause")) => out_full.val = Fail_cause(last.error)

\* C3 (amended): Context::with_err(m, e).cause() is always present, also when
\* e has no cause: it is the failure held by the Error that e was converted
\* into, the prior error e itself, not e.cause().
C3_CauseIsHeldFailure ==
    (Built("with_err") /\ Returned("cause")) =>
        /\ out_full.val.some
        /\ out_full.val.val = last.error
        /\ out_full.val = Some(Error_cause(full.failure.b))

C3_Witness ==
    /\ Built("with_err") /\ Returned("cause")
    /\ last.error = IoError
    /\ Fail_cause(last.error) = None

C5_BacktraceAlwaysSome ==
    /\ \A c \in Nested(full) : Context_backtrace(c).some
    /\ Returned("backtrace") =>
          /\ out_full.val.some
          /\ Built("new") => out_full.val.val = Backtrace_new(last.captures)
          /\ Built("with_err") => out_full.val = Fail_backtrace(last.error)

C5_Witness ==
    /\ Returned("backtrace")
    /\ Built("with_err")
    /\ Depth(full) = MaxDepth

\* C6: new builds the This arm, with_err the That arm, each with the message
\* it was given, and no accessor changes the arm or the message.
C6_ArmFixedByConstructor ==
    [][ /\ last'.op = "new" => full'.failure.tag = "This"
        /\ last'.op = "with_err" => full'.failure.tag = "That"
        /\ full'.context = last'.context
        /\ out_full'.op # "none" => (full' = full /\ last' = last) ]_vars

C6_Witness ==
    /\ Built("with_err") /\ Returned("debug")
    /\ full.failure.tag = "That"
    /\ Depth(full) = 2

\* C7: Context::new(m).cause() is None.
C7_NewHasNoCause ==
    (Built("new") /\ Returned("cause")) => out_full.val = None

C7_Witness ==
    /\ Built("new") /\ Returned("cause")
    /\ captures = 2

\* C8: Debug is the Debug form of the held cause (the backtrace for new, the
\* prior error for with_err), two newlines, the message text; the message is
\* a suffix of it, preceded by a blank line.
C8_DebugIsCauseBlankLineMessage ==
    Returned("debug") =>
        /\ Built("new") =>
              out_full.val = Backtrace_fmt(Backtrace_new(last.captures))
                             \o NewlineNewline \o D_fmt(last.context)
        /\ Built("with_err") =>
              out_full.val = Fail_fmt_Debug(last.error)
                             \o NewlineNewline \o D_fmt(last.context)
        /\ IsSuffix(NewlineNewline \o D_fmt(last.context), out_full.val)

C8_Witness ==
    /\ Returned("debug") /\ Built("with_err")
    /\ last.error = ParseError
    /\ out_full.val = <<"ParseError { line: 4 }", "\n", "\n", "invalid",
                        "\n", "\n", "settings file">>

\* C9: of contexts nested in one another, Display shows the outermost message
\* only, and Debug shows the innermost cause's Debug form followed by every
\* message, innermost to outermost, each after a blank line.
C9_NestedChain ==
    Depth(full) >= 2 =>
        /\ Returned("display") => out_full.val = D_fmt(last.context)
        /\ Returned("debug") =>
              /\ out_full.val = Paragraphs(RootDebug(full), Chain(full))
              /\ Len(Chain(full)) = Depth(full)
              /\ Chain(full)[Len(Chain(full))] = last.context

C9_Witness ==
    /\ Depth(full) = MaxDepth
    /\ Returned("debug")
    /\ Chain(full)[1] # Chain(full)[2]
    /\ Chain(full)[2] # last.context

====
